---- MODULE Spec2Model ----
(***************************************************************************)
(* Model of the userscript deployment engine of run_one.py: the URL        *)
(* canonicalizer, the script fetcher, the extension locator, the           *)
(* Tampermonkey editor controller, the installation marker and the         *)
(* runner's main().                                                        *)
(***************************************************************************)
EXTENDS Integers, Sequences, FiniteSets, TLC

VARIABLES
    \* canonicalizer harness
    cin,            \* the input of the function applied: a URL, or an add-on id
    cout,           \* the value returned for cin
    cpc,            \* "off" | "input" | "done" | "raised"
    \* configuration, fixed during a run
    entry,          \* "canon" | "locator" | "target" | "addon" | "ensure" | "prefs" |
                    \* "batch" | "deploy" (direct calls of _install_wplace_script) | "main"
    envUrl,         \* WPLACE_TAMPERMONKEY_SCRIPT_URL (EmptyUrl when unset)
    prefs,          \* what <profile>/prefs.js holds about the extension uuids
    prepareOnly,    \* --prepare-only
    \* profile directory and cache
    marker,         \* <profile>/.wplace_userscript_installed exists
    scriptFile,     \* content of <profile>/wplace-bot.user.js, NoFile when absent
    userJs,         \* the required pref lines present in <profile>/user.js
    extFile,        \* <profile>/extensions/<addon id>.xpi exists
    addonCache,     \* the addon's cache file exists
    \* browser
    editor,         \* value held by the Tampermonkey editor widget
    ctxOpen,        \* a Camoufox context is open
    \* control state of main() and _run_context
    mpc,
    rcPrepare,      \* prepare_only argument of the running _run_context
    installedNow,   \* addon_installed_now
    ctxStarts,      \* contexts started so far
    waitedClose,    \* the run blocked on the browser's close event
    \* control state of _install_wplace_script and its callees
    pc,
    code,           \* local `code` of _install_userscript_via_dashboard
    route,          \* index into TAMPERMONKEY_EDITOR_ANCHORS
    attempt,        \* attempt on the current route
    pass,           \* iteration of the injection loop
    pasted,         \* local `pasted` of _set_tampermonkey_editor_code
    \* what the current call did (reset when a call starts)
    calls,          \* calls of _install_wplace_script so far
    entryMarker,    \* marker at the start of the call
    entryFile,      \* scriptFile at the start of the call
    fetchRes,       \* result of _download_userscript: "none" | "null" | "path"
    uuidRes,        \* result of _get_webext_uuid: "none" | "null" | "uuid"
    openRes,        \* result of _open_tampermonkey_editor: "none" | "false" | "true"
    setResult,      \* last result of _set_tampermonkey_editor_code
    ctrlResult,     \* result of _install_userscript_via_dashboard
    fetches,        \* urlopen calls
    locatorReads,   \* _get_webext_uuid calls
    navigations,    \* page.goto calls on the editor routes
    dismissals,     \* _dismiss_tampermonkey_banners calls
    injections,     \* injection strategies started
    saves,          \* _save_tampermonkey_editor calls
    markerWrites,   \* marker.write_text calls
    passVerified,   \* _editor_content_matches returned true in the current pass
    verified,       \* _editor_content_matches returned true in the current call
    saveLog,        \* the save mechanisms issued in the current call, in order
    readiness,      \* what the latest editor detection of the current call found:
                    \* "Unknown" (none yet) | "Navigating" | "Ready" | "Unreachable"
    failure,        \* the failure logged on the way to `return False`: "none" |
                    \* "uuid_not_found" | "editor_not_available" | "not_pasted"
    \* the addon cache directory shared by the processes running _download_addon
    served,         \* the body the addon URL is answered with
    inodes,         \* content of each file of the directory, by inode
    tmpIno,         \* inode the name addon-<digest>.tmp refers to, 0 when absent
    finalIno,       \* inode the name addon-<digest>.xpi refers to, 0 when absent
    fpc,            \* position of each process in _download_addon
    fh,             \* inode of the file each process holds open, 0 when none
    fpos,           \* offset of each process in its open file
    fcalls,         \* calls of _download_addon started by each process
    downloads,      \* urlopen calls on the addon URL, all processes together
    \* repeated calls of _ensure_addon on several profiles
    extensions,     \* content of <profile>/extensions/<addon id>.xpi, by profile and id
    xpiCache,       \* the addon URLs whose cache file exists
    ensureLog,      \* one record per call of _ensure_addon, in order
    \* repeated calls of _ensure_firefox_prefs on one profile
    userJsText,     \* the text of <profile>/user.js
    prefsLog,       \* user.js before and after each call, in order
    \* cookies_io import-batch
    payload,        \* the JSON document read from the input
    bidx,           \* index of the batch item the loop is at
    bpc,            \* "off" | "load" | "loop" | "done" | "raised"
    opened,         \* indices of the items whose profile was opened, in order
    received        \* the cookies each profile's context was given, in order

canonVars == <<cin, cout, cpc>>
configVars == <<entry, envUrl, prefs, prepareOnly>>
mainVars == <<userJs, extFile, addonCache, ctxOpen, mpc, rcPrepare, installedNow,
              ctxStarts, waitedClose>>
localVars == <<code, route, attempt, pass, pasted>>
resultVars == <<fetchRes, uuidRes, openRes, setResult, ctrlResult>>
countVars == <<fetches, locatorReads, navigations, dismissals, injections, saves,
               markerWrites>>
callVars == <<calls, entryMarker, entryFile>>
verifyVars == <<passVerified, verified>>
traceVars == <<saveLog, readiness, failure>>
fetchVars == <<served, inodes, tmpIno, finalIno, fpc, fh, fpos, fcalls, downloads>>
ensureVars == <<extensions, xpiCache, ensureLog>>
prefsVars == <<userJsText, prefsLog>>
batchVars == <<payload, bidx, bpc, opened, received>>
toolVars == <<ensureVars, prefsVars, batchVars>>

vars == <<canonVars, configVars, mainVars, localVars, resultVars, countVars, callVars,
          verifyVars, traceVars, fetchVars, toolVars, marker, scriptFile, editor, pc>>

(***************************************************************************)
(* URLs.  A URL text is a record                                           *)
(*   pad    : the text carries leading/trailing whitespace                 *)
(*   scheme : "" for the empty text, else the scheme                       *)
(*   host   : the netloc of the script URL                                 *)
(*   segs   : the path split at "/" after its leading slash ("" is an      *)
(*            empty segment, i.e. a doubled or trailing slash)             *)
(*   wraps  : how many times the script URL is wrapped in the installer    *)
(*            landing page URL, carried as its "#url=" fragment            *)
(***************************************************************************)
MaxSegs == 6
MaxWraps == 2

Segments == {"", "o", "raw"}
Hosts == {"github.com", "www.github.com", "GitHub.com", "example.org"}
Schemes == {"https", "http", "ftp"}
InstallerHost == "www.tampermonkey.net"
InstallerPath == <<"script_installation.php">>

EmptyUrl == [pad |-> FALSE, scheme |-> "", host |-> "", segs |-> <<>>, wraps |-> 0]

SeqsUpTo(S, n) == UNION {[1..k -> S] : k \in 0..n}

Urls ==
    {EmptyUrl, [EmptyUrl EXCEPT !.pad = TRUE]} \cup
    [pad : BOOLEAN, scheme : Schemes, host : Hosts,
     segs : SeqsUpTo(Segments, MaxSegs), wraps : 0..MaxWraps]

\* str.strip() of the whole text
Strip(u) == [u EXCEPT !.pad = FALSE]

\* urllib.parse.urlsplit(value).netloc and .path: a wrapped URL is a URL of the
\* installer landing page, the script URL being only its fragment
Netloc(u) == IF u.wraps > 0 THEN InstallerHost ELSE u.host
PathSegs(u) == IF u.wraps > 0 THEN InstallerPath ELSE u.segs

\* str.lower() on the host names of the model
Lower(h) == IF h = "GitHub.com" THEN "github.com" ELSE h

RECURSIVE LStripSlash(_)
LStripSlash(s) ==
    IF s # <<>> /\ Head(s) = "" THEN LStripSlash(Tail(s)) ELSE s

RECURSIVE RStripSlash(_)
RStripSlash(s) ==
    IF s # <<>> /\ s[Len(s)] = "" THEN RStripSlash(SubSeq(s, 1, Len(s) - 1)) ELSE s

\* parsed.path.strip("/").split("/"): "".split("/") is [""]
SplitPath(s) ==
    LET stripped == RStripSlash(LStripSlash(s))
    IN  IF stripped = <<>> THEN <<"">> ELSE stripped

RawHostUrl(owner, repo, rest) ==
    [pad |-> FALSE, scheme |-> "https", host |-> "raw.githubusercontent.com",
     segs |-> <<owner, repo>> \o rest, wraps |-> 0]

\* lines 53-73
_normalize_github_raw_url(url) ==
    LET value == Strip(url)
    IN  IF value.scheme = "" THEN EmptyUrl
        ELSE LET host == Lower(Netloc(value))
                 parts == SplitPath(PathSegs(value))
             IN  IF /\ host \in {"github.com", "www.github.com"}
                    /\ Len(parts) >= 6
                    /\ parts[3] = "raw"
                    /\ parts[1] # "" /\ parts[2] # ""
                 THEN RawHostUrl(parts[1], parts[2], SubSeq(parts, 4, Len(parts)))
                 ELSE value

_normalize_userscript_url(url) ==
    LET value == Strip(url)
    IN  IF value.scheme = "" THEN EmptyUrl ELSE _normalize_github_raw_url(value)

WPLACE_SCRIPT_DEFAULT ==
    [pad |-> FALSE, scheme |-> "https", host |-> "github.com",
     segs |-> <<"SoundOfTheSky", "wplace-bot", "raw", "refs", "heads", "main",
                "dist.user.js">>,
     wraps |-> 0]

_wplace_script_url(configured) ==
    LET normalized == _normalize_userscript_url(configured)
    IN  IF Strip(configured).scheme # "" /\ normalized.scheme # ""
        THEN normalized
        ELSE _normalize_userscript_url(WPLACE_SCRIPT_DEFAULT)

\* url.startswith(("http://", "https://"))
StartsWithHttp(u) == u.wraps > 0 \/ u.scheme \in {"http", "https"}

(***************************************************************************)
(* Script text.  A text is a sequence over Chars; CR and LF are the two    *)
(* line-ending characters.                                                 *)
(***************************************************************************)
MaxLen == 2

Chars == {"a", "CR", "LF"}
Texts == SeqsUpTo(Chars, MaxLen)
NoFile == <<"absent">>

\* what a response body can be: a script with LF or with CRLF line ends, or nothing
ResponseBodies == {<<>>, <<"a">>, <<"CR", "LF">>}

\* the editor holds the new-script template after the page loads
EditorTemplate == <<>>

\* str.replace("\r\n", "\n") and String.replace(/\r\n/g, '\n')
RECURSIVE NormalizeCRLF(_)
NormalizeCRLF(s) ==
    IF s = <<>> THEN <<>>
    ELSE IF Len(s) >= 2 /\ s[1] = "CR" /\ s[2] = "LF"
         THEN <<"LF">> \o NormalizeCRLF(SubSeq(s, 3, Len(s)))
         ELSE <<s[1]>> \o NormalizeCRLF(Tail(s))

\* Path.read_text(): text mode with universal newlines, so "\r\n" and a lone "\r"
\* both read as "\n"
RECURSIVE ReadText(_)
ReadText(s) ==
    IF s = <<>> THEN <<>>
    ELSE IF Len(s) >= 2 /\ s[1] = "CR" /\ s[2] = "LF"
         THEN <<"LF">> \o ReadText(SubSeq(s, 3, Len(s)))
         ELSE IF s[1] = "CR" THEN <<"LF">> \o ReadText(Tail(s))
              ELSE <<s[1]>> \o ReadText(Tail(s))

\* the check_script of _editor_content_matches on the value the widget holds
ContentEquals(value, expected) == NormalizeCRLF(value) = expected

\* _editor_content_matches: false when page.evaluate raises
_editor_content_matches(evalOk, value, expected) ==
    evalOk /\ ContentEquals(value, expected)

(***************************************************************************)
(* <profile>/prefs.js as _get_webext_uuid reads it: whether the file       *)
(* exists, what the extensions.webextensions.uuids line holds ("none": no  *)
(* line matches the pattern; "badjson": json.loads raises on the payload;  *)
(* "list": the payload is JSON but no object; "map": a JSON object), and   *)
(* the value the object has for each add-on id ("missing": no such key;    *)
(* "number": a value that is no string; otherwise the string itself).      *)
(***************************************************************************)
TAMPERMONKEY_ID == "firefox@tampermonkey.net"
AddonIds == {TAMPERMONKEY_ID, "other@addon"}
UuidStrings == {"", "uuid", "uuid-2"}
EntryValues == {"missing", "number"} \cup UuidStrings

NoMapping == [a \in AddonIds |-> "missing"]
AbsentPrefs == [exists |-> FALSE, pref |-> "none", mapping |-> NoMapping]
NoKeyPrefs == [AbsentPrefs EXCEPT !.exists = TRUE]
UuidPrefs ==
    [exists |-> TRUE, pref |-> "map",
     mapping |-> [NoMapping EXCEPT ![TAMPERMONKEY_ID] = "uuid"]]

PrefsFiles ==
    {AbsentPrefs}
    \cup {[NoKeyPrefs EXCEPT !.pref = k] : k \in {"none", "badjson", "list"}}
    \cup {[exists |-> TRUE, pref |-> "map", mapping |-> m] : m \in [AddonIds -> EntryValues]}

\* the prefs.js of the profiles _install_wplace_script is run on
DeployPrefs == {AbsentPrefs, NoKeyPrefs, UuidPrefs}

\* lines 337-347 with the guard `not value` left out
GetUuidAnyString(p, addon_id) ==
    IF p.pref # "map" \/ p.mapping[addon_id] \notin UuidStrings
    THEN "null"
    ELSE p.mapping[addon_id]

\* lines 327-348 after read_text has returned; None is "null"
_get_webext_uuid(p, addon_id) ==
    IF ~p.exists THEN "null"
    ELSE IF p.pref = "none" THEN "null"
    ELSE IF p.pref = "badjson" THEN "null"
    ELSE IF p.pref # "map" THEN "null"
    ELSE LET value == p.mapping[addon_id]
         IN  IF value \notin UuidStrings \/ value = "" THEN "null" ELSE value

BoolStr(b) == IF b THEN "true" ELSE "false"

(***************************************************************************)
(* _install_wplace_script and its callees.  A browser call that the code   *)
(* does not wrap in try/except may raise, and the exception leaves the     *)
(* call: pc = "raised".                                                    *)
(***************************************************************************)
MaxCalls == 2

\* a call of _install_wplace_script starts: nothing done yet
BeginCall ==
    /\ calls' = calls + 1
    /\ entryMarker' = marker
    /\ entryFile' = scriptFile
    /\ fetchRes' = "none" /\ uuidRes' = "none" /\ openRes' = "none"
    /\ setResult' = "none" /\ ctrlResult' = "none"
    /\ fetches' = 0 /\ locatorReads' = 0 /\ navigations' = 0 /\ dismissals' = 0
    /\ injections' = 0 /\ saves' = 0 /\ markerWrites' = 0
    /\ passVerified' = FALSE /\ verified' = FALSE
    /\ saveLog' = <<>> /\ readiness' = "Unknown" /\ failure' = "none"
    /\ code' = <<>> /\ route' = 1 /\ attempt' = 1 /\ pass' = 1 /\ pasted' = FALSE
    /\ pc' = "install"

\* the direct caller of _install_wplace_script
CallInstall ==
    /\ entry = "deploy" /\ pc = "idle" /\ calls < MaxCalls
    /\ BeginCall
    /\ UNCHANGED <<fetchVars, toolVars>>
    /\ UNCHANGED <<canonVars, configVars, mainVars, marker, scriptFile, editor>>

\* the call returned or raised; the caller may call again
ReturnInstall ==
    /\ entry = "deploy" /\ pc \in {"ret", "raised"}
    /\ pc' = "idle"
    /\ UNCHANGED <<fetchVars, toolVars>>
    /\ UNCHANGED traceVars
    /\ UNCHANGED <<canonVars, configVars, mainVars, localVars, resultVars, countVars,
                   callVars, verifyVars, marker, scriptFile, editor>>

\* InstallEnter without the marker check of lines 892-894
InstallEnterNoSkip ==
    /\ pc = "install"
    /\ \E waitOk \in BOOLEAN : pc' = IF waitOk THEN "download" ELSE "raised"
    /\ UNCHANGED <<fetchVars, toolVars>>
    /\ UNCHANGED traceVars
    /\ UNCHANGED <<canonVars, configVars, mainVars, localVars, resultVars, countVars,
                   callVars, verifyVars, marker, scriptFile, editor>>

\* InstallEnter that removes an existing marker and installs again
InstallEnterReinstall ==
    /\ pc = "install"
    /\ marker' = FALSE
    /\ \E waitOk \in BOOLEAN : pc' = IF waitOk THEN "download" ELSE "raised"
    /\ UNCHANGED <<fetchVars, toolVars>>
    /\ UNCHANGED traceVars
    /\ UNCHANGED <<canonVars, configVars, mainVars, localVars, resultVars, countVars,
                   callVars, verifyVars, scriptFile, editor>>

\* lines 891-896
InstallEnter ==
    /\ pc = "install"
    /\ IF marker
       THEN pc' = "ret"
       ELSE \E waitOk \in BOOLEAN : pc' = IF waitOk THEN "download" ELSE "raised"
    /\ UNCHANGED <<fetchVars, toolVars>>
    /\ UNCHANGED traceVars
    /\ UNCHANGED <<canonVars, configVars, mainVars, localVars, resultVars, countVars,
                   callVars, verifyVars, marker, scriptFile, editor>>

\* lines 311-324 and the first operand of line 901
_download_userscript ==
    /\ pc = "download"
    /\ LET url == _wplace_script_url(envUrl)
       IN  IF ~StartsWithHttp(url)
           THEN /\ fetchRes' = "null" /\ pc' = "finish"
                /\ UNCHANGED <<fetches, scriptFile>>
           ELSE /\ fetches' = fetches + 1
                /\ \E ok \in BOOLEAN, content \in ResponseBodies :
                      IF ok /\ content # <<>>
                      THEN \* line 321 writes the target in place: the write ends
                           \* after written bytes, short of the body when it fails
                           \E written \in 0..Len(content) :
                              /\ scriptFile' = SubSeq(content, 1, written)
                              /\ IF written = Len(content)
                                 THEN fetchRes' = "path" /\ pc' = "locate"
                                 ELSE fetchRes' = "null" /\ pc' = "finish"
                      ELSE /\ fetchRes' = "null" /\ pc' = "finish"
                           /\ UNCHANGED scriptFile
    /\ UNCHANGED <<fetchVars, toolVars>>
    /\ UNCHANGED traceVars
    /\ UNCHANGED <<canonVars, configVars, mainVars, localVars, callVars, verifyVars,
                   uuidRes, openRes, setResult, ctrlResult, locatorReads, navigations,
                   dismissals, injections, saves, markerWrites, marker, editor>>

\* LocateUuid without the early return of lines 837-839
LocateUuidIgnoreNull ==
    /\ pc = "locate"
    /\ locatorReads' = locatorReads + 1
    /\ uuidRes' = _get_webext_uuid(prefs, TAMPERMONKEY_ID)
    /\ pc' = "open"
    /\ UNCHANGED <<fetchVars, toolVars>>
    /\ UNCHANGED traceVars
    /\ UNCHANGED <<canonVars, configVars, mainVars, localVars, callVars, verifyVars,
                   fetchRes, openRes, setResult, ctrlResult, fetches, navigations,
                   dismissals, injections, saves, markerWrites, marker, scriptFile,
                   editor>>

\* lines 835-841: prefs_path.read_text (line 332) and ctx.new_page (line 841) are
\* not guarded
LocateUuid ==
    /\ pc = "locate"
    /\ locatorReads' = locatorReads + 1
    /\ \E readOk \in BOOLEAN, pageOk \in BOOLEAN :
          IF prefs.exists /\ ~readOk
          THEN pc' = "raised" /\ UNCHANGED <<uuidRes, ctrlResult>>
          ELSE /\ uuidRes' = _get_webext_uuid(prefs, TAMPERMONKEY_ID)
               /\ IF uuidRes' = "null"
                  THEN ctrlResult' = "false" /\ pc' = "finish"
                  ELSE /\ ctrlResult' = ctrlResult
                       /\ pc' = IF pageOk THEN "open" ELSE "raised"
    /\ UNCHANGED <<fetchVars, toolVars>>
    /\ failure' = (IF pc' = "finish" THEN "uuid_not_found" ELSE failure)
    /\ UNCHANGED <<saveLog, readiness>>
    /\ UNCHANGED <<canonVars, configVars, mainVars, localVars, callVars, verifyVars,
                   fetchRes, openRes, setResult, fetches, navigations, dismissals,
                   injections, saves, markerWrites, marker, scriptFile, editor>>

Anchors == 2
AttemptsPerRoute == 3

\* OpenAdvance that starts over at the first route instead of giving up
OpenAdvanceForever ==
    /\ openRes' = openRes /\ ctrlResult' = ctrlResult /\ pc' = "open"
    /\ IF attempt < AttemptsPerRoute
       THEN attempt' = attempt + 1 /\ route' = route
       ELSE attempt' = 1 /\ route' = IF route < Anchors THEN route + 1 ELSE 1

\* OpenAdvance that changes to the other route after every attempt
OpenAdvanceAlternate ==
    IF attempt < AttemptsPerRoute \/ route < Anchors
    THEN /\ attempt' = (IF route = Anchors THEN attempt + 1 ELSE attempt)
         /\ route' = (IF route < Anchors THEN route + 1 ELSE 1)
         /\ openRes' = openRes /\ ctrlResult' = ctrlResult /\ pc' = "open"
    ELSE /\ attempt' = attempt /\ route' = route
         /\ openRes' = "false" /\ ctrlResult' = "false" /\ pc' = "finish"

\* OpenAdvance whose caller goes on after the editor was not opened (no
\* `return False` at lines 842-843)
OpenAdvanceNoReturn ==
    IF attempt < AttemptsPerRoute
    THEN /\ attempt' = attempt + 1 /\ route' = route
         /\ openRes' = openRes /\ ctrlResult' = ctrlResult /\ pc' = "open"
    ELSE IF route < Anchors
         THEN /\ attempt' = 1 /\ route' = route + 1
              /\ openRes' = openRes /\ ctrlResult' = ctrlResult /\ pc' = "open"
         ELSE /\ attempt' = attempt /\ route' = route
              /\ openRes' = "false" /\ ctrlResult' = ctrlResult /\ pc' = "readcode"

\* the loops of lines 364-365 move on: next attempt, next route, or give up (376-377)
OpenAdvance ==
    IF attempt < AttemptsPerRoute
    THEN /\ attempt' = attempt + 1 /\ route' = route
         /\ openRes' = openRes /\ ctrlResult' = ctrlResult /\ pc' = "open"
    ELSE IF route < Anchors
         THEN /\ attempt' = 1 /\ route' = route + 1
              /\ openRes' = openRes /\ ctrlResult' = ctrlResult /\ pc' = "open"
         ELSE /\ attempt' = attempt /\ route' = route
              /\ openRes' = "false" /\ ctrlResult' = "false" /\ pc' = "finish"

\* lines 351-377 and 842-843: one pass through the body of the inner loop
OpenAttempt ==
    /\ pc = "open"
    /\ navigations' = navigations + 1
    /\ editor' = EditorTemplate
    /\ \E outcome \in {"raise", "notready", "waitraise", "ready"} :
          CASE outcome = "raise" -> OpenAdvance
            [] outcome = "notready" -> OpenAdvance
            [] outcome = "waitraise" ->
                  /\ pc' = "raised"
                  /\ UNCHANGED <<attempt, route, openRes, ctrlResult>>
            [] outcome = "ready" ->
                  /\ openRes' = "true" /\ pc' = "readcode"
                  /\ UNCHANGED <<attempt, route, ctrlResult>>
    /\ UNCHANGED <<fetchVars, toolVars>>
    /\ readiness' = (IF openRes' = "true" THEN "Ready"
                     ELSE IF openRes' = "false" THEN "Unreachable" ELSE "Navigating")
    /\ failure' = (IF openRes' = "false" THEN "editor_not_available" ELSE failure)
    /\ UNCHANGED saveLog
    /\ UNCHANGED <<canonVars, configVars, mainVars, callVars, verifyVars, code, pass,
                   pasted, fetchRes, uuidRes, setResult, fetches, locatorReads,
                   dismissals, injections, saves, markerWrites, marker, scriptFile>>

\* lines 845-849
ReadCode ==
    /\ pc = "readcode"
    /\ dismissals' = dismissals + 1
    /\ \E readOk \in BOOLEAN :
          IF readOk /\ scriptFile # NoFile
          THEN code' = ReadText(scriptFile) /\ pc' = "direct"
          ELSE code' = code /\ pc' = "raised"
    /\ pass' = 1
    /\ UNCHANGED <<fetchVars, toolVars>>
    /\ UNCHANGED traceVars
    /\ UNCHANGED <<canonVars, configVars, mainVars, resultVars, callVars, verifyVars,
                   route, attempt, pasted, fetches, locatorReads, navigations,
                   injections, saves, markerWrites, marker, scriptFile, editor>>

\* line 563
Normalized == NormalizeCRLF(code)

\* a strategy wrote the editor and read it back as the intended text: return True
StrategyVerified ==
    /\ setResult' = "true" /\ passVerified' = TRUE /\ verified' = TRUE
    /\ pc' = "passdone"

\* StrategyFailed that goes to the tab-focus strategy whichever strategy failed
StrategyFailedSkip(next) ==
    /\ pc' = "tabfocus"
    /\ UNCHANGED <<setResult, passVerified, verified>>

\* a strategy ended without a verified read-back: on to the next one
StrategyFailed(next) ==
    /\ pc' = next
    /\ UNCHANGED <<setResult, passVerified, verified>>

\* lines 851-852 and 701-714: banners, then direct assignment through the editor API
StrategyDirect ==
    /\ pc = "direct"
    /\ dismissals' = dismissals + 1
    /\ injections' = injections + 1
    /\ \E ready \in {"ready", "never", "raise"} :
          CASE ready = "raise" ->
                  /\ pc' = "raised"
                  /\ UNCHANGED <<pasted, editor, setResult, passVerified, verified,
                                 readiness>>
            [] ready = "never" ->
                  /\ readiness' = "Unreachable"
                  /\ pasted' = FALSE
                  /\ StrategyFailed("keyboard")
                  /\ UNCHANGED editor
            [] ready = "ready" ->
                  /\ readiness' = "Ready"
                  /\ \E ev \in {"raise", "false", "true"} :
                        CASE ev = "false" ->
                                /\ pasted' = FALSE /\ editor' = editor
                                /\ StrategyFailed("keyboard")
                          [] ev = "raise" ->
                                /\ pasted' = FALSE
                                /\ \E v \in Texts : editor' = v
                                /\ StrategyFailed("keyboard")
                          [] ev = "true" ->
                                \E v \in Texts, waitOk \in BOOLEAN :
                                   /\ editor' = v
                                   /\ IF ~waitOk
                                      THEN pasted' = FALSE /\ StrategyFailed("keyboard")
                                      ELSE /\ pasted' = TRUE
                                           /\ \E evalOk \in BOOLEAN :
                                                 IF _editor_content_matches(
                                                        evalOk, v, Normalized)
                                                 THEN StrategyVerified
                                                 ELSE StrategyFailed("keyboard")
    /\ UNCHANGED <<fetchVars, toolVars>>
    /\ UNCHANGED <<saveLog, failure>>
    /\ UNCHANGED <<canonVars, configVars, mainVars, callVars, code, route, attempt, pass,
                   fetchRes, uuidRes, openRes, ctrlResult, fetches, locatorReads,
                   navigations, saves, markerWrites, marker, scriptFile>>

\* lines 716-730: click, select all, keyboard insert_text
StrategyKeyboard ==
    /\ pc = "keyboard"
    /\ injections' = injections + 1
    /\ \E step \in {"clickraise", "insertraise", "waitraise", "checked"} :
          CASE step \in {"clickraise", "insertraise"} ->
                  /\ StrategyFailed("tabfocus")
                  /\ UNCHANGED editor
            [] step = "waitraise" ->
                  /\ \E v \in Texts : editor' = v
                  /\ StrategyFailed("tabfocus")
            [] step = "checked" ->
                  \E v \in Texts, evalOk \in BOOLEAN :
                     /\ editor' = v
                     /\ IF _editor_content_matches(evalOk, v, Normalized)
                        THEN StrategyVerified
                        ELSE StrategyFailed("tabfocus")
    /\ UNCHANGED <<fetchVars, toolVars>>
    /\ UNCHANGED traceVars
    /\ UNCHANGED <<canonVars, configVars, mainVars, callVars, localVars, fetchRes, uuidRes,
                   openRes, ctrlResult, fetches, locatorReads, navigations, dismissals,
                   saves, markerWrites, marker, scriptFile>>

\* the function returns `pasted` (lines 748-749)
ReturnUnverified ==
    /\ setResult' = BoolStr(pasted)
    /\ pc' = "passdone"
    /\ UNCHANGED <<passVerified, verified>>

\* lines 732-749: focus by tab traversal, select all, keyboard insert_text
StrategyTabFocus ==
    /\ pc = "tabfocus"
    /\ injections' = injections + 1
    /\ \E step \in {"nofocus", "insertraise", "waitraise", "checked"} :
          CASE step \in {"nofocus", "insertraise"} ->
                  /\ ReturnUnverified
                  /\ UNCHANGED editor
            [] step = "waitraise" ->
                  /\ \E v \in Texts : editor' = v
                  /\ ReturnUnverified
            [] step = "checked" ->
                  \E v \in Texts, evalOk \in BOOLEAN :
                     /\ editor' = v
                     /\ IF _editor_content_matches(evalOk, v, Normalized)
                        THEN StrategyVerified
                        ELSE ReturnUnverified
    /\ UNCHANGED <<fetchVars, toolVars>>
    /\ UNCHANGED traceVars
    /\ UNCHANGED <<canonVars, configVars, mainVars, callVars, localVars, fetchRes, uuidRes,
                   openRes, ctrlResult, fetches, locatorReads, navigations, dismissals,
                   saves, markerWrites, marker, scriptFile>>

Passes == 3

\* AfterPass without the `if not pasted: return False` of lines 857-859
AfterPassFallThrough ==
    /\ pc = "passdone"
    /\ IF setResult = "true"
       THEN /\ pc' = "save"
            /\ UNCHANGED <<pass, ctrlResult, passVerified>>
       ELSE \E waitOk \in BOOLEAN :
               IF ~waitOk
               THEN pc' = "raised" /\ UNCHANGED <<pass, ctrlResult, passVerified>>
               ELSE IF pass < Passes
                    THEN /\ pass' = pass + 1 /\ passVerified' = FALSE /\ pc' = "direct"
                         /\ UNCHANGED ctrlResult
                    ELSE /\ pc' = "save"
                         /\ UNCHANGED <<pass, ctrlResult, passVerified>>
    /\ UNCHANGED <<fetchVars, toolVars>>
    /\ UNCHANGED traceVars
    /\ UNCHANGED <<canonVars, configVars, mainVars, callVars, countVars, code, route,
                   attempt, pasted, fetchRes, uuidRes, openRes, setResult, verified,
                   marker, scriptFile, editor>>

\* lines 853-859: leave the loop on success, else wait and run the next pass
AfterPass ==
    /\ pc = "passdone"
    /\ IF setResult = "true"
       THEN /\ pc' = "save"
            /\ UNCHANGED <<pass, ctrlResult, passVerified>>
       ELSE \E waitOk \in BOOLEAN :
               IF ~waitOk
               THEN pc' = "raised" /\ UNCHANGED <<pass, ctrlResult, passVerified>>
               ELSE IF pass < Passes
                    THEN /\ pass' = pass + 1 /\ passVerified' = FALSE /\ pc' = "direct"
                         /\ UNCHANGED ctrlResult
                    ELSE /\ ctrlResult' = "false" /\ pc' = "finish"
                         /\ UNCHANGED <<pass, passVerified>>
    /\ UNCHANGED <<fetchVars, toolVars>>
    /\ failure' = (IF pc' = "finish" THEN "not_pasted" ELSE failure)
    /\ UNCHANGED <<saveLog, readiness>>
    /\ UNCHANGED <<canonVars, configVars, mainVars, callVars, countVars, code, route,
                   attempt, pasted, fetchRes, uuidRes, openRes, setResult, verified,
                   marker, scriptFile, editor>>

\* the mechanisms _save_tampermonkey_editor and lines 870-873 issue, in order:
\* keyboard.press of Control+S and of Meta+S (lines 821-826; a press that raises
\* issues nothing), then save_script (lines 828-831), which clicks a save-labelled
\* control, or else calls the save entry point of the widget (cm.save, editor.save),
\* or finds neither, or raises; then the click on the Save button (lines 870-873)
SaveMechanisms(ctrlS, metaS, script, button) ==
    (IF ctrlS THEN <<"shortcut">> ELSE <<>>)
    \o (IF metaS THEN <<"shortcut">> ELSE <<>>)
    \o (IF script \in {"control", "native"} THEN <<script>> ELSE <<>>)
    \o (IF button THEN <<"control">> ELSE <<>>)

\* SaveEditor that returns false when no save mechanism could be issued
SaveEditorStrict ==
    /\ pc = "save"
    /\ dismissals' = dismissals + 1
    /\ saves' = saves + 1
    /\ \E ctrlS \in BOOLEAN, metaS \in BOOLEAN,
          script \in {"raise", "none", "control", "native"}, button \in BOOLEAN :
          saveLog' = SaveMechanisms(ctrlS, metaS, script, button)
    /\ \E waitOk \in BOOLEAN :
          IF waitOk
          THEN /\ ctrlResult' = (IF saveLog' = <<>> THEN "false" ELSE "true")
               /\ pc' = "finish"
          ELSE ctrlResult' = ctrlResult /\ pc' = "raised"
    /\ UNCHANGED <<fetchVars, toolVars>>
    /\ UNCHANGED <<readiness, failure>>
    /\ UNCHANGED <<canonVars, configVars, mainVars, callVars, localVars, verifyVars,
                   fetchRes, uuidRes, openRes, setResult, fetches, locatorReads,
                   navigations, injections, markerWrites, marker, scriptFile, editor>>

\* lines 861-877
SaveEditor ==
    /\ pc = "save"
    /\ dismissals' = dismissals + 1
    /\ saves' = saves + 1
    /\ \E ctrlS \in BOOLEAN, metaS \in BOOLEAN,
          script \in {"raise", "none", "control", "native"}, button \in BOOLEAN :
          saveLog' = SaveMechanisms(ctrlS, metaS, script, button)
    /\ \E waitOk \in BOOLEAN :
          IF waitOk
          THEN ctrlResult' = "true" /\ pc' = "finish"
          ELSE ctrlResult' = ctrlResult /\ pc' = "raised"
    /\ UNCHANGED <<fetchVars, toolVars>>
    /\ UNCHANGED <<readiness, failure>>
    /\ UNCHANGED <<canonVars, configVars, mainVars, callVars, localVars, verifyVars,
                   fetchRes, uuidRes, openRes, setResult, fetches, locatorReads,
                   navigations, injections, markerWrites, marker, scriptFile, editor>>

\* MarkerAfter that writes the marker whatever `success` is
MarkerAfterAlways(before, success) == TRUE

\* lines 908-910: whether the marker file exists after the branch on `success`
MarkerAfter(before, success) == before \/ success

\* lines 901-912
InstallFinish ==
    /\ pc = "finish"
    /\ LET success == fetchRes = "path" /\ ctrlResult = "true"
       IN  \E waitOk \in BOOLEAN :
              IF ~waitOk
              THEN pc' = "raised" /\ UNCHANGED <<marker, markerWrites>>
              ELSE /\ marker' = MarkerAfter(marker, success)
                   /\ markerWrites' = IF success THEN markerWrites + 1 ELSE markerWrites
                   /\ pc' = "ret"
    /\ UNCHANGED <<fetchVars, toolVars>>
    /\ UNCHANGED traceVars
    /\ UNCHANGED <<canonVars, configVars, mainVars, callVars, localVars, resultVars,
                   verifyVars, fetches, locatorReads, navigations, dismissals, injections,
                   saves, scriptFile, editor>>

(***************************************************************************)
(* main() and _run_context.                                                *)
(***************************************************************************)
RequiredPrefs ==
    {"extensions.autoDisableScopes", "extensions.enabledScopes", "xpinstall.enabled"}

engineVars == <<localVars, resultVars, countVars, callVars, verifyVars, traceVars, pc>>

\* lines 147-174
_ensure_firefox_prefs ==
    /\ mpc = "main"
    /\ userJs' = userJs \cup RequiredPrefs
    /\ mpc' = "ensure_addon"
    /\ UNCHANGED <<fetchVars, toolVars>>
    /\ UNCHANGED <<canonVars, configVars, engineVars, extFile, addonCache, ctxOpen,
                   rcPrepare, installedNow, ctxStarts, waitedClose, marker, scriptFile,
                   editor>>

\* lines 134-144 and 108-115: a failed download (only when the cache file is
\* missing) or an unreadable XPI raises
_ensure_addon ==
    /\ mpc = "ensure_addon"
    /\ \E step \in {"dlraise", "badxpi", "ok"} :
          CASE step = "dlraise" ->
                  /\ ~addonCache
                  /\ mpc' = "raised"
                  /\ UNCHANGED <<addonCache, extFile, installedNow>>
            [] step = "badxpi" ->
                  /\ addonCache' = TRUE
                  /\ mpc' = "raised"
                  /\ UNCHANGED <<extFile, installedNow>>
            [] step = "ok" ->
                  /\ addonCache' = TRUE
                  /\ extFile' = TRUE
                  /\ installedNow' = ~extFile
                  /\ mpc' = "first_run"
    /\ UNCHANGED <<fetchVars, toolVars>>
    /\ UNCHANGED <<canonVars, configVars, engineVars, userJs, ctxOpen, rcPrepare,
                   ctxStarts, waitedClose, marker, scriptFile, editor>>

\* lines 915-935: the context starts; in a prepare-only run with install_userscript
\* set, _install_wplace_script is called
_run_context(prepare_only, install_userscript, at) ==
    /\ ctxStarts' = ctxStarts + 1
    /\ ctxOpen' = TRUE
    /\ rcPrepare' = prepare_only
    /\ mpc' = at
    /\ IF prepare_only /\ install_userscript THEN BeginCall ELSE UNCHANGED engineVars
    /\ UNCHANGED <<fetchVars, toolVars>>
    /\ UNCHANGED <<canonVars, configVars, userJs, extFile, addonCache, installedNow,
                   waitedClose, marker, scriptFile, editor>>

\* the extra startup cycle taken in every prepare-only run
MainFirstRunAlways ==
    /\ mpc = "first_run"
    /\ IF prepareOnly
       THEN _run_context(TRUE, FALSE, "rc1")
       ELSE mpc' = "second_run"
            /\ UNCHANGED <<fetchVars, toolVars>>
            /\ UNCHANGED <<canonVars, configVars, engineVars, userJs, extFile, addonCache,
                           ctxOpen, rcPrepare, installedNow, ctxStarts, waitedClose,
                           marker, scriptFile, editor>>

\* lines 997-1008
MainFirstRun ==
    /\ mpc = "first_run"
    /\ IF prepareOnly /\ installedNow
       THEN _run_context(TRUE, FALSE, "rc1")
       ELSE mpc' = "second_run"
            /\ UNCHANGED <<fetchVars, toolVars>>
            /\ UNCHANGED <<canonVars, configVars, engineVars, userJs, extFile, addonCache,
                           ctxOpen, rcPrepare, installedNow, ctxStarts, waitedClose,
                           marker, scriptFile, editor>>

\* lines 1010-1018
MainSecondRun ==
    /\ mpc = "second_run"
    /\ _run_context(prepareOnly, FALSE, "rc2")

\* lines 936-954: the rest of _run_context, once _install_wplace_script (if it was
\* called) has returned or raised; when wait_for_event raises the run sleeps for
\* ever (lines 952-954)
RunContextRest ==
    /\ mpc \in {"rc1", "rc2"}
    /\ pc \in {"idle", "ret", "raised"}
    /\ pc' = "idle"
    /\ LET after == IF mpc = "rc1" THEN "second_run" ELSE "finished"
       IN  IF pc = "raised"
           THEN mpc' = "raised" /\ ctxOpen' = FALSE /\ UNCHANGED waitedClose
           ELSE IF rcPrepare
                THEN mpc' = after /\ ctxOpen' = FALSE /\ UNCHANGED waitedClose
                ELSE \E step \in {"gotoraise", "closed", "waitraise"} :
                        CASE step = "gotoraise" ->
                                mpc' = "raised" /\ ctxOpen' = FALSE
                                /\ UNCHANGED waitedClose
                          [] step = "closed" ->
                                mpc' = after /\ ctxOpen' = FALSE /\ waitedClose' = TRUE
                          [] step = "waitraise" ->
                                mpc' = "sleeping" /\ ctxOpen' = TRUE
                                /\ waitedClose' = TRUE
    /\ UNCHANGED <<fetchVars, toolVars>>
    /\ UNCHANGED traceVars
    /\ UNCHANGED <<canonVars, configVars, localVars, resultVars, countVars, callVars,
                   verifyVars, userJs, extFile, addonCache, rcPrepare, installedNow,
                   ctxStarts, marker, scriptFile, editor>>

(***************************************************************************)
(* Initial states and specifications.                                      *)
(***************************************************************************)
\* the values of WPLACE_TAMPERMONKEY_SCRIPT_URL tried: unset, a non-http URL
DeployUrls ==
    {EmptyUrl,
     [pad |-> FALSE, scheme |-> "ftp", host |-> "example.org", segs |-> <<"o">>,
      wraps |-> 0]}

InitEngine ==
    /\ calls = 0 /\ entryMarker = FALSE /\ entryFile = NoFile
    /\ fetchRes = "none" /\ uuidRes = "none" /\ openRes = "none"
    /\ setResult = "none" /\ ctrlResult = "none"
    /\ fetches = 0 /\ locatorReads = 0 /\ navigations = 0 /\ dismissals = 0
    /\ injections = 0 /\ saves = 0 /\ markerWrites = 0
    /\ passVerified = FALSE /\ verified = FALSE
    /\ saveLog = <<>> /\ readiness = "Unknown" /\ failure = "none"
    /\ code = <<>> /\ route = 1 /\ attempt = 1 /\ pass = 1 /\ pasted = FALSE
    /\ pc = "idle"
    /\ editor = EditorTemplate

(***************************************************************************)
(* _download_addon run by several processes on one cache directory.  A     *)
(* file is an inode; the names addon-<digest>.xpi and addon-<digest>.tmp   *)
(* each refer to an inode or to none, and an open file refers to an inode. *)
(* Path.write_bytes opens the name for writing (creating the file, or      *)
(* truncating the one the name refers to), writes the body chunk by chunk  *)
(* (one character each) at the offset of the open file, and closes it.     *)
(***************************************************************************)
MaxFetches == 2

Procs == {1, 2}
InodeIds == 1..(Cardinality(Procs) + 1)
NoInodes == [i \in InodeIds |-> <<>>]

InitFetchOff ==
    /\ served = <<>> /\ inodes = NoInodes /\ tmpIno = 0 /\ finalIno = 0
    /\ fpc = [p \in Procs |-> "off"] /\ fh = [p \in Procs |-> 0]
    /\ fpos = [p \in Procs |-> 0] /\ fcalls = [p \in Procs |-> 0]
    /\ downloads = 0

\* the inodes some name or open file refers to; the others are gone
Refs(t, f, h) == ({t, f} \cup {h[p] : p \in Procs}) \ {0}
Clean(tbl, refs) == [i \in InodeIds |-> IF i \in refs THEN tbl[i] ELSE <<>>]
FreeInode ==
    LET free == InodeIds \ Refs(tmpIno, finalIno, fh)
    IN  CHOOSE i \in free : \A j \in free : i <= j

\* write(2) of one character at offset pos; a gap below the offset reads as NUL
WriteAt(data, pos, ch) ==
    LET n == IF Len(data) > pos + 1 THEN Len(data) ELSE pos + 1
    IN  [i \in 1..n |-> IF i = pos + 1 THEN ch
                        ELSE IF i <= Len(data) THEN data[i] ELSE "NUL"]

NotFetchVars ==
    <<canonVars, configVars, mainVars, engineVars, toolVars, marker, scriptFile, editor>>

\* a process (a fresh one after a raise or a crash) calls _download_addon: line 109
DownloadAddonCall(p) ==
    /\ fpc[p] \in {"idle", "returned", "raised", "crashed"}
    /\ fcalls[p] < MaxFetches
    /\ fcalls' = [fcalls EXCEPT ![p] = @ + 1]
    /\ fpc' = [fpc EXCEPT ![p] = "exists"]
    /\ UNCHANGED <<served, inodes, tmpIno, finalIno, fh, fpos, downloads>>
    /\ UNCHANGED NotFetchVars

\* lines 110-111
DownloadAddonExists(p) ==
    /\ fpc[p] = "exists"
    /\ fpc' = [fpc EXCEPT ![p] = IF finalIno # 0 THEN "returned" ELSE "urlopen"]
    /\ UNCHANGED <<served, inodes, tmpIno, finalIno, fh, fpos, fcalls, downloads>>
    /\ UNCHANGED NotFetchVars

\* lines 112-114: urlopen and response.read()
DownloadAddonUrlopen(p) ==
    /\ fpc[p] = "urlopen"
    /\ downloads' = downloads + 1
    /\ \E ok \in BOOLEAN : fpc' = [fpc EXCEPT ![p] = IF ok THEN "open" ELSE "raised"]
    /\ UNCHANGED <<served, inodes, tmpIno, finalIno, fh, fpos, fcalls>>
    /\ UNCHANGED NotFetchVars

\* line 114, tmp_path.write_bytes: open for writing
DownloadAddonOpen(p) ==
    /\ fpc[p] = "open"
    /\ LET i == IF tmpIno # 0 THEN tmpIno ELSE FreeInode
       IN  /\ inodes' = [inodes EXCEPT ![i] = <<>>]
           /\ tmpIno' = i
           /\ fh' = [fh EXCEPT ![p] = i]
    /\ fpos' = [fpos EXCEPT ![p] = 0]
    /\ fpc' = [fpc EXCEPT ![p] = "write"]
    /\ UNCHANGED <<served, finalIno, fcalls, downloads>>
    /\ UNCHANGED NotFetchVars

\* line 114, tmp_path.write_bytes: the next chunk
DownloadAddonWrite(p) ==
    /\ fpc[p] = "write"
    /\ fpos[p] < Len(served)
    /\ inodes' = [inodes EXCEPT ![fh[p]] = WriteAt(@, fpos[p], served[fpos[p] + 1])]
    /\ fpos' = [fpos EXCEPT ![p] = @ + 1]
    /\ UNCHANGED <<served, tmpIno, finalIno, fpc, fh, fcalls, downloads>>
    /\ UNCHANGED NotFetchVars

\* line 114, tmp_path.write_bytes: close after the last chunk
DownloadAddonClose(p) ==
    /\ fpc[p] = "write"
    /\ fpos[p] = Len(served)
    /\ fh' = [fh EXCEPT ![p] = 0]
    /\ inodes' = Clean(inodes, Refs(tmpIno, finalIno, fh'))
    /\ fpc' = [fpc EXCEPT ![p] = "replace"]
    /\ UNCHANGED <<served, tmpIno, finalIno, fpos, fcalls, downloads>>
    /\ UNCHANGED NotFetchVars

\* line 115, tmp_path.replace(path): FileNotFoundError when the name is gone
DownloadAddonReplace(p) ==
    /\ fpc[p] = "replace"
    /\ IF tmpIno = 0
       THEN /\ fpc' = [fpc EXCEPT ![p] = "raised"]
            /\ UNCHANGED <<inodes, tmpIno, finalIno>>
       ELSE /\ finalIno' = tmpIno
            /\ tmpIno' = 0
            /\ inodes' = Clean(inodes, Refs(0, tmpIno, fh))
            /\ fpc' = [fpc EXCEPT ![p] = "returned"]
    /\ UNCHANGED <<served, fh, fpos, fcalls, downloads>>
    /\ UNCHANGED NotFetchVars

\* the process is killed inside lines 109-115; its open file is closed
DownloadAddonKilled(p) ==
    /\ fpc[p] \in {"exists", "urlopen", "open", "write", "replace"}
    /\ fpc' = [fpc EXCEPT ![p] = "crashed"]
    /\ fh' = [fh EXCEPT ![p] = 0]
    /\ inodes' = Clean(inodes, Refs(tmpIno, finalIno, fh'))
    /\ UNCHANGED <<served, tmpIno, finalIno, fpos, fcalls, downloads>>
    /\ UNCHANGED NotFetchVars

InitCanonOff == cin = EmptyUrl /\ cout = EmptyUrl /\ cpc = "off"

InitEnsureOff == extensions = <<>> /\ xpiCache = {} /\ ensureLog = <<>>

InitPrefsOff == userJsText = <<>> /\ prefsLog = <<>>

InitBatchOff ==
    /\ payload = <<>> /\ bidx = 0 /\ bpc = "off" /\ opened = <<>> /\ received = <<>>

InitToolsOff == InitEnsureOff /\ InitPrefsOff /\ InitBatchOff

InitMainOff ==
    /\ prepareOnly = FALSE /\ userJs = {} /\ extFile = TRUE /\ addonCache = TRUE
    /\ rcPrepare = FALSE /\ installedNow = FALSE /\ ctxStarts = 0 /\ waitedClose = FALSE

Init ==
    /\ InitFetchOff
    /\ InitCanonOff
    /\ InitEngine
    /\ InitToolsOff
    /\ marker \in BOOLEAN
    /\ scriptFile \in {NoFile, <<"a">>}
    /\ prefs \in DeployPrefs
    /\ envUrl \in DeployUrls
    /\ entry \in {"deploy", "main"}
    /\ IF entry = "deploy"
       THEN InitMainOff /\ mpc = "harness" /\ ctxOpen = TRUE
       ELSE /\ prepareOnly \in BOOLEAN
            /\ userJs \in SUBSET RequiredPrefs
            /\ extFile \in BOOLEAN
            /\ addonCache \in BOOLEAN
            /\ rcPrepare = FALSE /\ installedNow = FALSE /\ ctxStarts = 0
            /\ waitedClose = FALSE
            /\ mpc = "main" /\ ctxOpen = FALSE

Next ==
    \/ CallInstall
    \/ ReturnInstall
    \/ InstallEnter
    \/ _download_userscript
    \/ LocateUuid
    \/ OpenAttempt
    \/ ReadCode
    \/ StrategyDirect
    \/ StrategyKeyboard
    \/ StrategyTabFocus
    \/ AfterPass
    \/ SaveEditor
    \/ InstallFinish
    \/ _ensure_firefox_prefs
    \/ _ensure_addon
    \/ MainFirstRun
    \/ MainSecondRun
    \/ RunContextRest

Spec == Init /\ [][Next]_vars

(***************************************************************************)
(* Canonicalizer harness: draw a URL text, apply _normalize_userscript_url.*)
(***************************************************************************)
InitCanon ==
    /\ InitFetchOff
    /\ cin \in Urls
    /\ cout = EmptyUrl
    /\ cpc = "input"
    /\ InitEngine
    /\ InitToolsOff
    /\ InitMainOff
    /\ entry = "canon" /\ envUrl = EmptyUrl /\ prefs = AbsentPrefs
    /\ marker = FALSE /\ scriptFile = NoFile
    /\ mpc = "harness" /\ ctxOpen = FALSE

Canonicalize ==
    /\ cpc = "input"
    /\ cout' = _normalize_userscript_url(cin)
    /\ cpc' = "done"
    /\ UNCHANGED <<fetchVars, toolVars>>
    /\ UNCHANGED <<cin, configVars, mainVars, engineVars, marker, scriptFile, editor>>

NextCanon == Canonicalize

SpecCanon == InitCanon /\ [][NextCanon]_vars

(***************************************************************************)
(* _get_webext_uuid applied to every prefs.js of PrefsFiles and every id.  *)
(***************************************************************************)
InitLocator ==
    /\ InitFetchOff
    /\ cin \in AddonIds
    /\ cout = "none"
    /\ cpc = "input"
    /\ InitEngine
    /\ InitToolsOff
    /\ InitMainOff
    /\ entry = "locator" /\ envUrl = EmptyUrl /\ prefs \in PrefsFiles
    /\ marker \in BOOLEAN /\ scriptFile = NoFile
    /\ mpc = "harness" /\ ctxOpen = FALSE

\* lines 327-348; prefs_path.read_text (line 332) is not guarded
GetWebextUuid ==
    /\ cpc = "input"
    /\ \E readOk \in BOOLEAN :
          IF prefs.exists /\ ~readOk
          THEN cpc' = "raised" /\ cout' = cout
          ELSE cpc' = "done" /\ cout' = _get_webext_uuid(prefs, cin)
    /\ UNCHANGED <<fetchVars, toolVars>>
    /\ UNCHANGED <<cin, configVars, mainVars, engineVars, marker, scriptFile, editor>>

NextLocator == GetWebextUuid

SpecLocator == InitLocator /\ [][NextLocator]_vars

(***************************************************************************)
(* The file _download_userscript stores a script at, for two fetches.      *)
(***************************************************************************)
Profiles == {"profile-1", "profile-2"}

\* values of WPLACE_TAMPERMONKEY_SCRIPT_URL
ScriptEnvUrls ==
    {EmptyUrl} \cup
    [pad : {FALSE}, scheme : {"https", "ftp"}, host : {"github.com", "example.org"},
     segs : {<<"o">>, <<"o", "o", "raw", "o", "o", "o">>}, wraps : {0}]

\* the result of a fetch that stores nothing (None)
NoTarget == [dir |-> "", name |-> ""]

\* lines 312-316: the target of the fetch, NoTarget when nothing is fetched
_userscript_target(profile_dir, configured) ==
    IF ~StartsWithHttp(_wplace_script_url(configured))
    THEN NoTarget
    ELSE [dir |-> profile_dir, name |-> "wplace-bot.user.js"]

InitTarget ==
    /\ cin \in [1..2 -> [profile : Profiles, env : ScriptEnvUrls]]
    /\ cout = <<>>
    /\ cpc = "input"
    /\ InitFetchOff
    /\ InitEngine
    /\ InitToolsOff
    /\ InitMainOff
    /\ entry = "target" /\ envUrl = EmptyUrl /\ prefs = AbsentPrefs
    /\ marker = FALSE /\ scriptFile = NoFile
    /\ mpc = "harness" /\ ctxOpen = FALSE

ScriptTargets ==
    /\ cpc = "input"
    /\ cout' = [i \in 1..2 |-> _userscript_target(cin[i].profile, cin[i].env)]
    /\ cpc' = "done"
    /\ UNCHANGED <<fetchVars, toolVars>>
    /\ UNCHANGED <<cin, configVars, mainVars, engineVars, marker, scriptFile, editor>>

NextTarget == ScriptTargets

SpecTarget == InitTarget /\ [][NextTarget]_vars

(***************************************************************************)
(* Two processes calling _download_addon for one URL.                      *)
(***************************************************************************)
InitAddon ==
    /\ served \in ResponseBodies
    /\ \/ finalIno = 0 /\ inodes = NoInodes
       \/ served # <<>> /\ finalIno = 1 /\ inodes = [NoInodes EXCEPT ![1] = served]
    /\ tmpIno = 0
    /\ fpc = [p \in Procs |-> "idle"] /\ fh = [p \in Procs |-> 0]
    /\ fpos = [p \in Procs |-> 0] /\ fcalls = [p \in Procs |-> 0]
    /\ downloads = 0
    /\ InitCanonOff
    /\ InitEngine
    /\ InitToolsOff
    /\ InitMainOff
    /\ entry = "addon" /\ envUrl = EmptyUrl /\ prefs = AbsentPrefs
    /\ marker = FALSE /\ scriptFile = NoFile
    /\ mpc = "harness" /\ ctxOpen = FALSE

NextAddon ==
    \E p \in Procs :
        \/ DownloadAddonCall(p)
        \/ DownloadAddonExists(p)
        \/ DownloadAddonUrlopen(p)
        \/ DownloadAddonOpen(p)
        \/ DownloadAddonWrite(p)
        \/ DownloadAddonClose(p)
        \/ DownloadAddonReplace(p)
        \/ DownloadAddonKilled(p)

SpecAddon == InitAddon /\ [][NextAddon]_vars

(***************************************************************************)
(* Properties.                                                             *)
(***************************************************************************)
NavBudget == Anchors * AttemptsPerRoute

\* C1: _set_tampermonkey_editor_code returns true, and the controller returns true,
\* only if a read-back in that same pass equalled the intended text after CRLF->LF
\* normalization.
C1_SuccessOnlyIfVerified ==
    /\ setResult = "true" => passVerified
    /\ ctrlResult = "true" => passVerified

\* C2: the marker is written only in a call in which a read-back matched.
C2_MarkerOnlyAfterVerification == markerWrites > 0 => verified

\* C3: a call of _install_wplace_script that finds the marker fetches nothing, reads
\* no locator, navigates nowhere, injects and saves nothing, does not raise, and
\* leaves the marker and the script file as they were; so does every repeated call.
C3_Idempotent ==
    entryMarker =>
        /\ fetches = 0 /\ locatorReads = 0 /\ navigations = 0 /\ dismissals = 0
        /\ injections = 0 /\ saves = 0 /\ markerWrites = 0
        /\ marker /\ scriptFile = entryFile
        /\ pc \in {"install", "ret", "idle"}

C3_Witness == calls >= 2 /\ entryMarker /\ pc = "ret" /\ entryFile # NoFile

\* C4: with the marker absent the stages run in the order canonicalize, fetch,
\* locate, editor controller; a stage is started only if the one before it yielded a
\* result, and after a stage without a result the marker is not written.
C4_StagesInOrder ==
    /\ fetches > 0 => StartsWithHttp(_wplace_script_url(envUrl))
    /\ locatorReads > 0 => fetchRes = "path"
    /\ navigations > 0 => uuidRes = "uuid"
    /\ (dismissals > 0 \/ injections > 0 \/ saves > 0) => openRes = "true"
    /\ fetchRes = "null" => (locatorReads = 0 /\ navigations = 0)
    /\ uuidRes = "null" => navigations = 0
    /\ (fetchRes = "null" \/ uuidRes = "null" \/ openRes = "false" \/ ctrlResult = "false")
          => (markerWrites = 0 /\ ~marker)

C4_Witness ==
    /\ pc = "ret" /\ ~entryMarker /\ fetchRes = "path" /\ uuidRes = "null"
    /\ locatorReads = 1

C6_MarkerMonotonic == [][marker => marker']_vars

C6_Witness ==
    \/ entry = "main" /\ marker /\ mpc = "finished" /\ waitedClose /\ installedNow
    \/ entry = "deploy" /\ marker /\ calls >= 2 /\ pc = "idle" /\ markerWrites = 0

\* C7: the editor is navigated to at most Anchors * AttemptsPerRoute times; when no
\* navigation finds it ready, the controller returns false after exactly that many
\* navigations, with no injection and no save.
C7_BoundedNavigation ==
    /\ navigations <= NavBudget
    /\ pc = "open" => navigations < NavBudget
    /\ openRes = "false" =>
          /\ navigations = NavBudget
          /\ ctrlResult = "false"
          /\ injections = 0 /\ saves = 0

C7_Witness == openRes = "false" /\ ctrlResult = "false" /\ pc = "ret"

\* C8: a --prepare-only run on a profile without the marker calls
\* _install_wplace_script, and returns without waiting for the close event.
C8_PrepareOnlyInstalls ==
    (entry = "main" /\ prepareOnly /\ mpc = "finished" /\ ~marker) =>
        (calls > 0 /\ ~waitedClose)

\* a direct script URL: an http(s) URL text that is not wrapped
IsDirectUrl(u) == u.wraps = 0 /\ u.scheme \in {"http", "https"}

\* C9: canonicalize(wrap(x)) = canonicalize(x) for a direct script URL x wrapped
\* one or more times in the installer landing page URL.
C9_WrapRoundTrip ==
    (cpc = "done" /\ cin.wraps > 0 /\ IsDirectUrl([cin EXCEPT !.wraps = 0])) =>
        cout = _normalize_userscript_url([cin EXCEPT !.wraps = 0])

\* the path shape owner/repo/raw/branch/path... on the source-control host
IsRawPermalink(u) ==
    /\ IsDirectUrl(u)
    /\ Lower(u.host) \in {"github.com", "www.github.com"}
    /\ LET parts == SplitPath(u.segs)
       IN  /\ Len(parts) >= 5
           /\ parts[1] # "" /\ parts[2] # "" /\ parts[3] = "raw" /\ parts[4] # ""

\* C10: a raw permalink host/owner/repo/raw/branch/path... is rewritten to
\* raw-host/owner/repo/branch/path..., the segments after "raw" kept in order.
C10_RawPermalinkRewritten ==
    (cpc = "done" /\ IsRawPermalink(cin)) =>
        LET parts == SplitPath(cin.segs)
        IN  cout = RawHostUrl(parts[1], parts[2], SubSeq(parts, 4, Len(parts)))

\* a URL on the source-control host whose third path segment is "raw"
HasRawSegment(u) ==
    /\ IsDirectUrl(u)
    /\ Lower(u.host) \in {"github.com", "www.github.com"}
    /\ LET parts == SplitPath(u.segs)
       IN  Len(parts) >= 3 /\ parts[3] = "raw"

\* C11: canonicalize returns the empty string or an http(s) URL; empty,
\* whitespace-only and non-http(s) inputs yield the empty string, and an http(s) URL
\* that is not a raw permalink is returned unchanged.
C11_EmptyOrHttp ==
    cpc = "done" =>
        /\ cout = EmptyUrl \/ StartsWithHttp(cout)
        /\ ~StartsWithHttp(cin) => cout = EmptyUrl
        /\ (~cin.pad /\ StartsWithHttp(cin) /\ ~HasRawSegment(cin)) => cout = cin

\* C12: a call that finds the script file already stored by an earlier fetch does
\* not open the network again.
C12_CacheHit == (calls >= 2 /\ entryFile # NoFile) => fetches = 0

\* C13: the script file is absent or holds one complete non-empty response body,
\* never a part of one.
C13_NoPartialFile == scriptFile = NoFile \/ scriptFile \in ResponseBodies \ {<<>>}

\* the results of _get_webext_uuid the claim lists: null without the file, without
\* the key, with a payload that is no JSON or no mapping, or with no non-empty
\* string for the id; the mapped string otherwise
LocatorResult(p, id) ==
    IF \/ ~p.exists
       \/ p.pref \in {"none", "badjson", "list"}
       \/ p.mapping[id] \in {"missing", "number", ""}
    THEN "null"
    ELSE p.mapping[id]

\* C16: _get_webext_uuid, when the read of prefs.js returns, returns null in the
\* listed cases and the mapped string otherwise; with the file absent it does not
\* raise; it never changes the profile (prefs.js, marker, script file).
C16_LocatorResult ==
    [][(cpc = "input" /\ cpc' # "input") =>
          /\ cpc' = "done" => cout' = LocatorResult(prefs, cin)
          /\ ~prefs.exists => cpc' = "done"
          /\ prefs' = prefs /\ marker' = marker /\ scriptFile' = scriptFile]_vars

C16_Witness ==
    /\ cpc = "done" /\ cout = "uuid-2" /\ cin = TAMPERMONKEY_ID
    /\ prefs.mapping["other@addon"] = "uuid"

\* the positions inside the fetch, locator and editor-controller stages
StagePcs ==
    {"download", "locate", "open", "readcode", "direct", "keyboard", "tabfocus",
     "passdone", "save"}

\* C17: no step taken inside the fetch, locator or controller stage ends the call
\* of _install_wplace_script with an exception.
C17_NoFaultEscapes == [][(pc \in StagePcs) => (pc' # "raised")]_vars

\* the positions at which one of the three injection strategies is about to run
StrategyPcs == {"direct", "keyboard", "tabfocus"}

\* C18: a pass starts with the direct strategy; the keyboard strategy is started
\* only from a direct strategy that did not verify, the tab-focus strategy only from
\* a keyboard strategy that did not verify; a verified read-back ends the pass, and
\* after it no strategy is started.
C18_StrategyOrder ==
    [][/\ (pc' = "direct" /\ pc # "direct") => pc \in {"readcode", "passdone"}
       /\ (pc' = "keyboard" /\ pc # "keyboard") => (pc = "direct" /\ ~passVerified')
       /\ (pc' = "tabfocus" /\ pc # "tabfocus") => (pc = "keyboard" /\ ~passVerified')
       /\ (passVerified' /\ ~passVerified) => (pc \in StrategyPcs /\ pc' = "passdone")
       /\ passVerified => pc' \notin StrategyPcs]_vars

C18_Witness == pc = "passdone" /\ passVerified /\ pass = 1 /\ injections = 3

\* C19: the pass number stays within 1..Passes; a pass after the first is run only
\* after a pass that returned false; no pass is run after one that returned true;
\* the editor is saved only after a pass returned true; and the controller returns
\* false after an opened editor only when Passes passes returned false, without
\* having saved.
C19_BoundedPasses ==
    /\ pass \in 1..Passes
    /\ (pc \in StrategyPcs /\ pass > 1) => setResult = "false"
    /\ setResult = "true" => pc \notin StrategyPcs
    /\ saves > 0 => setResult = "true"
    /\ (openRes = "true" /\ ctrlResult = "false") =>
          (pass = Passes /\ setResult = "false" /\ saves = 0)

C19_Witness ==
    /\ pc = "ret" /\ openRes = "true" /\ ctrlResult = "false" /\ pass = Passes
    /\ saves = 0

\* C20: a navigation goes to the first route while fewer than AttemptsPerRoute
\* navigations were made and to the second one afterwards, and none is made once
\* a navigation has found the editor ready.
C20_RouteOrder ==
    [][navigations' = navigations + 1 =>
          /\ pc = "open" /\ openRes = "none"
          /\ route = 1 <=> navigations < AttemptsPerRoute
          /\ route = 2 <=> navigations >= AttemptsPerRoute
          /\ attempt = navigations - (route - 1) * AttemptsPerRoute + 1]_vars

C20_Witness ==
    /\ pc = "ret" /\ openRes = "true" /\ route = 2
    /\ navigations > AttemptsPerRoute /\ navigations < NavBudget

\* C14: an empty response body is not stored: while the addon URL is answered
\* with the empty body, the final cache path stays absent.
C14_EmptyNotStored == served = <<>> => finalIno = 0

\* C15: whatever the interleaving of two processes, the file at the final cache
\* path, when there is one, holds the whole body.
C15_NoPartialAtFinal == finalIno # 0 => inodes[finalIno] = served

\* C21: the save phase issues at most one save mechanism, and the save entry point
\* of the widget, when it is called, is called before any shortcut or control.
C21_SaveOrder ==
    /\ Len(saveLog) <= 1
    /\ \A i \in 1..Len(saveLog) : saveLog[i] = "native" => i = 1

ReadinessSteps ==
    {<<"Unknown", "Navigating">>, <<"Unknown", "Ready">>, <<"Navigating", "Ready">>,
     <<"Navigating", "Unreachable">>}

\* C23: within a call readiness changes only along ReadinessSteps, so a Ready
\* editor is not treated as not ready later; the keyboard and tab-focus
\* strategies are run only while it is Ready; and a call that navigated and
\* returns ends with Ready or Unreachable.
C23_ReadinessTransitions ==
    [][/\ (readiness' # readiness /\ pc' # "install")
            => <<readiness, readiness'>> \in ReadinessSteps
       /\ (pc \in {"keyboard", "tabfocus"}) => readiness = "Ready"
       /\ (pc' = "ret" /\ navigations' > 0)
            => readiness' \in {"Ready", "Unreachable"}]_vars

\* C24: when no route was found ready, the controller has returned false with no
\* banner dismissal, no injection strategy and no save, and the failure logged is
\* the editor-unavailable one; the not-pasted failure is logged only after the
\* editor was opened.
C24_EditorUnavailable ==
    /\ openRes = "false" =>
          /\ ctrlResult = "false"
          /\ dismissals = 0 /\ injections = 0 /\ saves = 0 /\ saveLog = <<>>
          /\ failure = "editor_not_available"
    /\ failure = "not_pasted" => openRes = "true"

C24_Witness ==
    /\ pc = "ret" /\ openRes = "false" /\ failure = "editor_not_available"
    /\ navigations = NavBudget /\ ~marker

\* the positions of a process that has downloaded the body and not yet returned
Holding == {"open", "write", "replace"}

\* C25: the URL is downloaded at most once across the processes: no two of them
\* hold a downloaded body at the same time.
C25_DownloadedOnce ==
    \A p \in Procs, q \in Procs :
        (fpc[p] \in Holding /\ fpc[q] \in Holding) => p = q

\* C26: of two fetches that store a script, those of the same URL store it at the
\* same path, whatever the profiles, and those of different URLs at different
\* paths.
C26_PathFromUrlAlone ==
    (cpc = "done" /\ cout[1] # NoTarget /\ cout[2] # NoTarget) =>
        LET url1 == _wplace_script_url(cin[1].env)
            url2 == _wplace_script_url(cin[2].env)
        IN  /\ url1 = url2 => cout[1] = cout[2]
            /\ url1 # url2 => cout[1] # cout[2]


\* C27: in a run of main whose _ensure_addon returned, the number of context
\* starts is two exactly when the run is prepare-only and the addon was copied
\* in this run, and one otherwise; the first context is closed before the second
\* one is opened
C27_ContextStarts ==
    entry = "main" =>
        /\ mpc \in {"rc2", "finished", "sleeping"} =>
               ctxStarts = (IF prepareOnly /\ installedNow THEN 2 ELSE 1)
        /\ mpc = "rc1" => (ctxStarts = 1 /\ prepareOnly /\ installedNow /\ ctxOpen)
        /\ mpc \in {"first_run", "second_run"} =>
               (~ctxOpen /\ ctxStarts = (IF mpc = "second_run" /\ prepareOnly /\ installedNow
                                         THEN 1 ELSE 0))

C27_Witness == entry = "main" /\ mpc = "finished" /\ ctxStarts = 2 /\ ~ctxOpen


(***************************************************************************)
(* Repeated calls of _ensure_addon, on several profiles and addons.        *)
(***************************************************************************)
MaxEnsures == 3

AddonUrls == {"latest.xpi", "other.xpi"}

\* _addon_id_from_xpi of the file cached for a URL
XpiId(url) == IF url = "latest.xpi" THEN TAMPERMONKEY_ID ELSE "other@addon"

\* a copy made whether or not the target exists
EnsureOverwrite(before) ==
    [after |-> "new", result |-> IF before # "none" THEN "false" ELSE "true"]

\* lines 141-144: what becomes of the target file ("none" when absent, "old" a
\* file found in the profile, "new" a copy of the cache file) and what is returned
EnsureTarget(before) ==
    IF before # "none"
    THEN [after |-> before, result |-> "false"]
    ELSE [after |-> "new", result |-> "true"]

InitEnsure ==
    /\ extensions \in [Profiles \X AddonIds -> {"none", "old"}]
    /\ xpiCache = {}
    /\ ensureLog = <<>>
    /\ InitPrefsOff
    /\ InitBatchOff
    /\ InitFetchOff
    /\ InitCanonOff
    /\ InitEngine
    /\ InitMainOff
    /\ entry = "ensure" /\ envUrl = EmptyUrl /\ prefs = AbsentPrefs
    /\ marker = FALSE /\ scriptFile = NoFile
    /\ mpc = "harness" /\ ctxOpen = FALSE

\* lines 134-144: one call; a failed download (only when the cache file is
\* missing) or an unreadable XPI raises before the profile is touched
EnsureAddon(profile_dir, addon_url) ==
    /\ entry = "ensure"
    /\ Len(ensureLog) < MaxEnsures
    /\ LET addon_id == XpiId(addon_url)
           before == extensions[<<profile_dir, addon_id>>]
           call == [profile |-> profile_dir, addon |-> addon_id, before |-> before]
       IN  \E step \in {"dlraise", "badxpi", "ok"} :
              CASE step = "dlraise" ->
                      /\ addon_url \notin xpiCache
                      /\ ensureLog' = Append(ensureLog,
                             call @@ [after |-> before, result |-> "raised"])
                      /\ UNCHANGED <<extensions, xpiCache>>
                [] step = "badxpi" ->
                      /\ xpiCache' = xpiCache \cup {addon_url}
                      /\ ensureLog' = Append(ensureLog,
                             call @@ [after |-> before, result |-> "raised"])
                      /\ UNCHANGED extensions
                [] step = "ok" ->
                      /\ xpiCache' = xpiCache \cup {addon_url}
                      /\ extensions' = [extensions EXCEPT
                             ![<<profile_dir, addon_id>>] = EnsureTarget(before).after]
                      /\ ensureLog' = Append(ensureLog, call @@ EnsureTarget(before))
    /\ UNCHANGED <<fetchVars, prefsVars, batchVars>>
    /\ UNCHANGED <<canonVars, configVars, mainVars, engineVars, marker, scriptFile, editor>>

NextEnsure == \E profile_dir \in Profiles, addon_url \in AddonUrls :
                  EnsureAddon(profile_dir, addon_url)

SpecEnsure == InitEnsure /\ [][NextEnsure]_vars

\* C28: a call of _ensure_addon returns true exactly when it copied the cache
\* file to a target that was absent; a call never changes a target that exists;
\* and after a call that returned true no later call for the same profile and
\* addon returns true
C28_EnsureOnce ==
    \A i \in 1..Len(ensureLog) :
        LET e == ensureLog[i]
        IN  /\ e.result = "true" <=> (e.before = "none" /\ e.after = "new")
            /\ e.before # "none" => e.after = e.before
            /\ \A j \in 1..(i - 1) :
                   (/\ ensureLog[j].profile = e.profile
                    /\ ensureLog[j].addon = e.addon
                    /\ ensureLog[j].result = "true")
                   => (e.result # "true" /\ e.before = "new")

C28_Witness ==
    \E i, j \in 1..Len(ensureLog) :
        /\ j < i
        /\ ensureLog[j].profile = ensureLog[i].profile
        /\ ensureLog[j].addon = ensureLog[i].addon
        /\ ensureLog[j].result = "true"
        /\ ensureLog[i].result = "false"
        /\ \E k \in 1..Len(ensureLog) :
               ensureLog[k].before = "old" /\ ensureLog[k].result = "false"


(***************************************************************************)
(* Repeated calls of _ensure_firefox_prefs on one profile.  The text of    *)
(* user.js is a sequence of pieces: the text of a required line without    *)
(* its newline (named by its key), "//" (the start of a comment, which     *)
(* runs to the end of the line), "other" (another statement) and "nl".     *)
(***************************************************************************)
MaxText == 3
MaxPrefsCalls == 2

\* lines 154-167: the lines built, in the order of the dict
RequiredLines ==
    <<"extensions.autoDisableScopes", "extensions.enabledScopes", "xpinstall.enabled">>

TextPieces == RequiredPrefs \cup {"//", "other", "nl"}

UserJsTexts == UNION {[1..n -> TextPieces] : n \in 0..MaxText}

\* `line.strip() in existing`: the text occurs somewhere in the file
Occurs(line, text) == \E q \in 1..Len(text) : text[q] = line

RECURSIVE AppendMissing(_, _)
\* lines 171-174: what the loop writes to the handle; `existing` was read once,
\* before the file was opened for appending
AppendMissing(lines, existing) ==
    IF lines = <<>> THEN <<>>
    ELSE (IF Occurs(Head(lines), existing) THEN <<>> ELSE <<Head(lines), "nl">>)
         \o AppendMissing(Tail(lines), existing)

InitPrefs ==
    /\ userJsText \in UserJsTexts
    /\ prefsLog = <<>>
    /\ InitEnsureOff
    /\ InitBatchOff
    /\ InitFetchOff
    /\ InitCanonOff
    /\ InitEngine
    /\ InitMainOff
    /\ entry = "prefs" /\ envUrl = EmptyUrl /\ prefs = AbsentPrefs
    /\ marker = FALSE /\ scriptFile = NoFile
    /\ mpc = "harness" /\ ctxOpen = FALSE

\* lines 147-174: one call; the file is opened in append mode
EnsureFirefoxPrefs ==
    /\ entry = "prefs"
    /\ Len(prefsLog) < MaxPrefsCalls
    /\ userJsText' = userJsText \o AppendMissing(RequiredLines, userJsText)
    /\ prefsLog' = Append(prefsLog, [before |-> userJsText, after |-> userJsText'])
    /\ UNCHANGED <<fetchVars, ensureVars, batchVars>>
    /\ UNCHANGED <<canonVars, configVars, mainVars, engineVars, marker, scriptFile, editor>>

NextPrefs == EnsureFirefoxPrefs

SpecPrefs == InitPrefs /\ [][NextPrefs]_vars

\* the statement `line` of user.js takes effect: it stands outside a comment
InEffect(line, text) ==
    \E q \in 1..Len(text) :
        /\ text[q] = line
        /\ \A c \in 1..(q - 1) :
               text[c] = "//" => \E n \in (c + 1)..(q - 1) : text[n] = "nl"

\* C29: after a call of _ensure_firefox_prefs user.js holds each of the three
\* required preference lines as a statement of its own (outside a comment)
C29_RequiredPrefsSet ==
    \A i \in 1..Len(prefsLog) :
        \A k \in 1..Len(RequiredLines) : InEffect(RequiredLines[k], prefsLog[i].after)

\* the other parts of C29: a call keeps the text it found as a prefix, appends
\* only lines whose text did not occur in it, each once and ended by a newline,
\* leaves the text of every required line in the file, and a second call
\* appends nothing
PrefsAppendOnly ==
    \A i \in 1..Len(prefsLog) :
        LET b == prefsLog[i].before
            a == prefsLog[i].after
        IN  /\ Len(a) >= Len(b) /\ SubSeq(a, 1, Len(b)) = b
            /\ \A k \in 1..Len(RequiredLines) : Occurs(RequiredLines[k], a)
            /\ \A q \in (Len(b) + 1)..Len(a) :
                   \/ a[q] = "nl" /\ q > Len(b) + 1 /\ a[q - 1] # "nl"
                   \/ /\ a[q] \in RequiredPrefs
                      /\ ~Occurs(a[q], b)
                      /\ \A r \in (Len(b) + 1)..Len(a) : a[r] = a[q] => r = q
                      /\ q < Len(a) /\ a[q + 1] = "nl"
            /\ i > 1 => (b = prefsLog[i - 1].after /\ a = b)


(***************************************************************************)
(* cookies_io: import-batch.  A cookie of the input is a record saying     *)
(* whether it has the keys "name" and "value"; a batch item says whether   *)
(* it is a JSON object, its "profile" ("" when missing, empty or not a     *)
(* string) and its "cookies" (isList false when it is not an array).       *)
(***************************************************************************)
MaxItems == 3

Cookie(n) == [hasName |-> TRUE, hasValue |-> TRUE, name |-> n]
NoNameCookie == [hasName |-> FALSE, hasValue |-> TRUE, name |-> ""]
NoValueCookie == [hasName |-> TRUE, hasValue |-> FALSE, name |-> "c"]

CookieLists ==
    {<<>>, <<Cookie("a")>>, <<Cookie("b"), Cookie("a")>>, <<Cookie("a"), NoNameCookie>>,
     <<NoValueCookie, Cookie("b")>>}

NotAnObject == [object |-> FALSE, profile |-> "", isList |-> FALSE, cookies |-> <<>>]

BatchItems ==
    {NotAnObject}
    \cup [object : {TRUE}, profile : Profiles \cup {""}, isList : {TRUE},
          cookies : CookieLists]
    \cup [object : {TRUE}, profile : Profiles \cup {""}, isList : {FALSE},
          cookies : {<<>>}]

Payloads ==
    {[list |-> FALSE, items |-> <<>>]}
    \cup [list : {TRUE}, items : UNION {[1..n -> BatchItems] : n \in 0..MaxItems}]

\* lines 42-47: _normalize_cookie raises for a cookie without name or value
CookieRaises(raw) == ~raw.hasName \/ ~raw.hasValue

\* lines 49-53: the cookie handed to the browser, here its name
_normalize_cookie(raw) == raw.name

\* an item with no cookies opens its profile like any other
ItemStepOpenEmpty(item) ==
    IF ~item.object THEN "raise"
    ELSE IF item.profile = "" THEN "raise"
    ELSE IF ~item.isList THEN "raise"
    ELSE IF \E c \in 1..Len(item.cookies) : CookieRaises(item.cookies[c]) THEN "raise"
    ELSE "open"

\* lines 142-152: the checks of one item, in the order of the code
ItemStep(item) ==
    IF ~item.object THEN "raise"
    ELSE IF item.profile = "" THEN "raise"
    ELSE IF ~item.isList THEN "raise"
    ELSE IF \E c \in 1..Len(item.cookies) : CookieRaises(item.cookies[c]) THEN "raise"
    ELSE IF item.cookies = <<>> THEN "skip"
    ELSE "open"

InitBatch ==
    /\ payload \in Payloads
    /\ bidx = 0 /\ bpc = "load" /\ opened = <<>> /\ received = <<>>
    /\ InitEnsureOff
    /\ InitPrefsOff
    /\ InitFetchOff
    /\ InitCanonOff
    /\ InitEngine
    /\ InitMainOff
    /\ entry = "batch" /\ envUrl = EmptyUrl /\ prefs = AbsentPrefs
    /\ marker = FALSE /\ scriptFile = NoFile
    /\ mpc = "harness" /\ ctxOpen = FALSE

NotBatchVars ==
    <<fetchVars, ensureVars, prefsVars, canonVars, configVars, mainVars, engineVars,
      marker, scriptFile, editor>>

\* lines 137-139
BatchLoad ==
    /\ bpc = "load"
    /\ IF payload.list THEN bpc' = "loop" /\ bidx' = 1
                       ELSE bpc' = "raised" /\ bidx' = bidx
    /\ UNCHANGED <<payload, opened, received>>
    /\ UNCHANGED NotBatchVars

\* lines 141-157 and 113-119: one iteration of the loop.  Starting the browser
\* on the profile can fail, and so can add_cookies once the context is open
BatchItem ==
    /\ bpc = "loop"
    /\ bidx <= Len(payload.items)
    /\ LET item == payload.items[bidx]
           cookies == [c \in 1..Len(item.cookies) |-> _normalize_cookie(item.cookies[c])]
       IN  CASE ItemStep(item) = "raise" ->
                   bpc' = "raised" /\ UNCHANGED <<bidx, opened, received>>
             [] ItemStep(item) = "skip" ->
                   bidx' = bidx + 1 /\ UNCHANGED <<bpc, opened, received>>
             [] ItemStep(item) = "open" ->
                   \E browser \in {"ok", "launchfail", "addfail"} :
                      CASE browser = "ok" ->
                              /\ opened' = Append(opened, bidx)
                              /\ received' = Append(received,
                                     [profile |-> item.profile, cookies |-> cookies])
                              /\ bidx' = bidx + 1
                              /\ UNCHANGED bpc
                        [] browser = "launchfail" ->
                              bpc' = "raised" /\ UNCHANGED <<bidx, opened, received>>
                        [] browser = "addfail" ->
                              /\ opened' = Append(opened, bidx)
                              /\ bpc' = "raised"
                              /\ UNCHANGED <<bidx, received>>
    /\ UNCHANGED payload
    /\ UNCHANGED NotBatchVars

\* line 141: the loop runs out of items
BatchDone ==
    /\ bpc = "loop"
    /\ bidx > Len(payload.items)
    /\ bpc' = "done"
    /\ UNCHANGED <<payload, bidx, opened, received>>
    /\ UNCHANGED NotBatchVars

NextBatch == BatchLoad \/ BatchItem \/ BatchDone

SpecBatch == InitBatch /\ [][NextBatch]_vars

\* an item the batch rejects: not an object, no profile, cookies not a list, or
\* a cookie without name or value
InvalidItem(item) ==
    \/ ~item.object
    \/ item.profile = ""
    \/ ~item.isList
    \/ \E c \in 1..Len(item.cookies) :
           ~item.cookies[c].hasName \/ ~item.cookies[c].hasValue

CookieNames(item) == [c \in 1..Len(item.cookies) |-> item.cookies[c].name]

\* C30: while the batch is at item k (bidx), every item before k was valid; the
\* profiles opened are those of the items before k that have cookies, in payload
\* order, and each was given its own cookies; an item without cookies was not
\* opened; the batch ends without an error only when every item is valid; and
\* when it stopped on an invalid item k no profile of item k or later was opened
C30_BatchOrder ==
    bpc \in {"loop", "done", "raised"} /\ payload.list =>
        LET items == payload.items
            failedOpen == bpc = "raised" /\ opened # <<>> /\ opened[Len(opened)] = bidx
            delivered == IF failedOpen THEN Len(opened) - 1 ELSE Len(opened)
        IN  /\ \A j \in 1..Len(items) : j < bidx => ~InvalidItem(items[j])
            /\ \A i \in 1..Len(opened) :
                   /\ opened[i] \in 1..Len(items)
                   /\ opened[i] <= bidx
                   /\ i > 1 => opened[i - 1] < opened[i]
                   /\ items[opened[i]].cookies # <<>>
                   /\ ~InvalidItem(items[opened[i]])
            /\ \A j \in 1..Len(items) :
                   (j < bidx /\ items[j].cookies # <<>>) =>
                       \E i \in 1..Len(opened) : opened[i] = j
            /\ Len(received) = delivered
            /\ \A i \in 1..Len(received) :
                   received[i] = [profile |-> items[opened[i]].profile,
                                  cookies |-> CookieNames(items[opened[i]])]
            /\ bpc = "done" => bidx = Len(items) + 1
            /\ bpc = "raised" => bidx \in 1..Len(items)
            /\ (bpc = "raised" /\ InvalidItem(items[bidx])) =>
                   \A i \in 1..Len(opened) : opened[i] < bidx

C30_Witness ==
    /\ bpc = "raised"
    /\ payload.list
    /\ bidx = 3
    /\ InvalidItem(payload.items[bidx])
    /\ opened = <<2>>
    /\ payload.items[1].cookies = <<>>
    /\ Len(received) = 1

====
